---------------------------- MODULE Spec2Model ----------------------------
(***************************************************************************)
(* Model of the three-provider query page (src/unnamed/part_001): the      *)
(* response normalizer standardizeResponse, the three provider adapters,   *)
(* the orchestrator handleSearch with its per-provider updateResponse      *)
(* continuations and its Promise.all join, the history store gateway and   *)
(* the local history handlers.                                             *)
(*                                                                         *)
(* Text is a sequence of one-character strings.  The glyphs the normalizer *)
(* writes are outside TLC's character set and are written by their         *)
(* code points.                                                            *)
(***************************************************************************)
EXTENDS Integers, Sequences, FiniteSets, TLC

(***************************************************************************)
(* Characters                                                              *)
(***************************************************************************)
GlyphSmall  == "U+1F539"   \* small blue diamond, '### '
GlyphMedium == "U+1F537"   \* large blue diamond, '## '
GlyphLarge  == "U+1F4A0"   \* diamond with a dot, '# '
GlyphBullet == "U+2022"    \* bullet
GlyphPin    == "U+1F4CD"   \* round pushpin, numbered item
GlyphNote   == "U+1F4DD"   \* memo, blockquote
BracketL    == "U+300C"    \* left corner bracket
BracketR    == "U+300D"    \* right corner bracket
Backtick    == "U+0060"    \* the backtick of code spans and fences

\* String.prototype.trim strips these (the white space the model's texts use).
WhiteSpace == {" ", "\n", "\r", "\t"}
\* What '.' does not match and what '^' and '$' (flag m) match next to.
LineTerminators == {"\n", "\r"}
LowerCase == {"a","b","c","d","e","f","g","h","i","j","k","l","m",
              "n","o","p","q","r","s","t","u","v","w","x","y","z"}
Digits == {"0","1","2","3","4","5","6","7","8","9"}

(***************************************************************************)
(* Sequence helpers                                                        *)
(***************************************************************************)
Drop(s, n) == SubSeq(s, n + 1, Len(s))
Take(s, n) == SubSeq(s, 1, n)

\* s has the characters of p at positions i .. i+Len(p)-1
HasAt(s, i, p) ==
  /\ i >= 1
  /\ i + Len(p) - 1 <= Len(s)
  /\ \A k \in 1..Len(p) : s[i + k - 1] = p[k]

Min(S) == CHOOSE x \in S : \A y \in S : x <= y

\* first index >= i whose character is in set C, or 0
IndexIn(s, C, i) ==
  LET hits == {k \in i..Len(s) : s[k] \in C}
  IN  IF hits = {} THEN 0 ELSE Min(hits)

\* first index >= i whose character is NOT in set C, or Len(s)+1
IndexNotIn(s, C, i) ==
  LET hits == {k \in i..Len(s) : s[k] \notin C}
  IN  IF hits = {} THEN Len(s) + 1 ELSE Min(hits)

\* first index >= i where the characters of p start, or 0
IndexOfSeq(s, p, i) ==
  LET hits == {k \in i..Len(s) : HasAt(s, k, p)}
  IN  IF hits = {} THEN 0 ELSE Min(hits)

\* String.prototype.trim
TrimLeft(s) == Drop(s, IndexNotIn(s, WhiteSpace, 1) - 1)

TrimRight(s) ==
  LET last == {k \in 1..Len(s) : s[k] \notin WhiteSpace}
  IN  IF last = {} THEN <<>> ELSE Take(s, CHOOSE k \in last : \A j \in last : j <= k)

trim(s) == TrimRight(TrimLeft(s))

(***************************************************************************)
(* standardizeResponse, step by step                                       *)
(***************************************************************************)
\* .replace(/\r\n/g, '\n')
RECURSIVE ReplaceCRLF(_)
ReplaceCRLF(s) ==
  LET at == IndexOfSeq(s, <<"\r", "\n">>, 1)
  IN  IF at = 0 THEN s
      ELSE Take(s, at - 1) \o <<"\n">> \o ReplaceCRLF(Drop(s, at + 1))

\* .replace(/\n{3,}/g, '\n\n')
RECURSIVE CollapseBlankLines(_)
CollapseBlankLines(s) ==
  LET at == IndexOfSeq(s, <<"\n", "\n", "\n">>, 1)
  IN  IF at = 0 THEN s
      ELSE Take(s, at - 1) \o <<"\n", "\n">>
             \o CollapseBlankLines(Drop(s, IndexNotIn(s, {"\n"}, at) - 1))

\* .replace(/BBB[a-z]*\n([\s\S]*?)BBB/g, '[$1]'), B the backtick, the
\* brackets the corner brackets
Fence == <<Backtick, Backtick, Backtick>>
RECURSIVE ReplaceCodeBlocks(_)
ReplaceCodeBlocks(s) ==
  LET open == IndexOfSeq(s, Fence, 1)
  IN  IF open = 0 THEN s
      ELSE
        LET nl    == IndexNotIn(s, LowerCase, open + 3)  \* after the greedy [a-z]*
            close == IF nl <= Len(s) /\ s[nl] = "\n"
                     THEN IndexOfSeq(s, Fence, nl + 1)   \* the lazy body ends at the first fence
                     ELSE 0
        IN  IF close > 0
            THEN Take(s, open - 1)
                   \o <<BracketL>> \o SubSeq(s, nl + 1, close - 1) \o <<BracketR>>
                   \o ReplaceCodeBlocks(Drop(s, close + 2))
            ELSE Take(s, open) \o ReplaceCodeBlocks(Drop(s, open))

\* The line-anchored replacements: /^P ?(.*$)/gm matches at the start of the
\* text and after each line terminator, and its '.*$' runs to the next line
\* terminator, so each line is rewritten on its own.
\* A line starting with prefix p, then an optional space, becomes glyph, a
\* space and the rest of the line.
PrefixLine(line, p, glyph) ==
  IF HasAt(line, 1, p)
  THEN LET rest == Drop(line, Len(p))
       IN  <<glyph, " ">> \o (IF rest # <<>> /\ Head(rest) = " " THEN Tail(rest) ELSE rest)
  ELSE line

\* /^(\d+)\. ?(.*$)/gm -> pin, space, $1, '. ', $2
NumberedLine(line) ==
  LET dot == IndexNotIn(line, Digits, 1)
  IN  IF dot > 1 /\ dot <= Len(line) /\ line[dot] = "."
      THEN LET rest == Drop(line, dot)
           IN  <<GlyphPin, " ">> \o Take(line, dot - 1) \o <<".", " ">>
                 \o (IF rest # <<>> /\ Head(rest) = " " THEN Tail(rest) ELSE rest)
      ELSE line

\* sensitivity of C15: the shortest prefix tried first
HeadingLine_ShortestFirst(line) ==
  PrefixLine(PrefixLine(PrefixLine(line, <<"#">>, GlyphLarge),
                        <<"#", "#">>, GlyphMedium),
             <<"#", "#", "#">>, GlyphSmall)

\* the six replacements of lines 802-810 and the one of line 814, in order
HeadingLine(line) ==
  PrefixLine(PrefixLine(PrefixLine(line, <<"#", "#", "#">>, GlyphSmall),
                        <<"#", "#">>, GlyphMedium),
             <<"#">>, GlyphLarge)

ListLine(line) ==
  NumberedLine(PrefixLine(PrefixLine(line, <<"*">>, GlyphBullet),
                          <<"-">>, GlyphBullet))

QuoteLine(line) == PrefixLine(line, <<">">>, GlyphNote)

FormatLine(line) == QuoteLine(ListLine(HeadingLine(line)))

\* apply FormatLine to every line, keeping the line terminators
RECURSIVE FormatLines(_)
FormatLines(s) ==
  LET t == IndexIn(s, LineTerminators, 1)
  IN  IF t = 0 THEN FormatLine(s)
      ELSE FormatLine(Take(s, t - 1)) \o <<s[t]>> \o FormatLines(Drop(s, t))

\* .replace(/D([^d]+)D/g, L $1 R) where D is the character d written n times:
\* inline code (n = 1, corner brackets), bold (n = 2) and italic (n = 1)
RECURSIVE ReplaceDelimited(_, _, _, _, _)
ReplaceDelimited(s, d, n, L, R) ==
  LET D    == [k \in 1..n |-> d]
      open == IndexOfSeq(s, D, 1)
  IN  IF open = 0 THEN s
      ELSE
        LET close == IndexIn(s, {d}, open + n)
        IN  IF close > open + n /\ HasAt(s, close, D)
            THEN Take(s, open - 1) \o L \o SubSeq(s, open + n, close - 1) \o R
                   \o ReplaceDelimited(Drop(s, close + n - 1), d, n, L, R)
            ELSE Take(s, open) \o ReplaceDelimited(Drop(s, open), d, n, L, R)

\* .replace(/\[([^\]]+)\]\(([^)]+)\)/g, '$1')
RECURSIVE ReplaceLinks(_)
ReplaceLinks(s) ==
  LET open == IndexIn(s, {"["}, 1)
  IN  IF open = 0 THEN s
      ELSE
        LET rb == IndexIn(s, {"]"}, open + 1)
            rp == IF rb > open + 1 /\ HasAt(s, rb + 1, <<"(">>)
                  THEN IndexIn(s, {")"}, rb + 2) ELSE 0
        IN  IF rp > rb + 2
            THEN Take(s, open - 1) \o SubSeq(s, open + 1, rb - 1)
                   \o ReplaceLinks(Drop(s, rp))
            ELSE Take(s, open) \o ReplaceLinks(Drop(s, open))

\* .split('\n').map(line => line.trim()).filter(line => line).join('\n\n')
RECURSIVE SplitLines(_)
SplitLines(s) ==
  LET t == IndexIn(s, {"\n"}, 1)
  IN  IF t = 0 THEN <<s>>
      ELSE <<Take(s, t - 1)>> \o SplitLines(Drop(s, t))

RECURSIVE JoinParagraphs(_)
JoinParagraphs(lines) ==
  IF lines = <<>> THEN <<>>
  ELSE IF Len(lines) = 1 THEN lines[1]
  ELSE lines[1] \o <<"\n", "\n">> \o JoinParagraphs(Tail(lines))

Respace(s) ==
  LET trimmed == [i \in DOMAIN SplitLines(s) |-> trim(SplitLines(s)[i])]
  IN  JoinParagraphs(SelectSeq(trimmed, LAMBDA line : line # <<>>))

\* standardizeResponse on a non-empty string
standardizeText(text) ==
  LET cleaned == CollapseBlankLines(ReplaceCRLF(trim(text)))
      fenced  == ReplaceCodeBlocks(cleaned)
      lined   == FormatLines(fenced)
      coded   == ReplaceDelimited(lined, Backtick, 1, <<BracketL>>, <<BracketR>>)
      bold    == ReplaceDelimited(ReplaceDelimited(coded, "*", 2, <<>>, <<>>),
                                  "_", 2, <<>>, <<>>)
      italic  == ReplaceDelimited(ReplaceDelimited(bold, "*", 1, <<>>, <<>>),
                                  "_", 1, <<>>, <<>>)
      linked  == ReplaceLinks(italic)
  IN  Respace(linked)


(***************************************************************************)
(* Texts of the program, character by character                            *)
(***************************************************************************)
LOADING ==
  <<"L","o","a","d","i","n","g",".",".",".">>
CannedText ==
  <<"#"," ","T","i","t","l","e","\n","\n","S","o","m","e"," ","t","e","x",
    "t">>
OpenAIName ==
  <<"O","p","e","n","A","I">>
GeminiName ==
  <<"G","e","m","i","n","i">>
PerplexityName ==
  <<"P","e","r","p","l","e","x","i","t","y">>
ErrorOpen ==
  <<"E","r","r","o","r"," ","(">>
ErrorClose ==
  <<")",":"," ">>
MsgTimedOut ==
  <<"R","e","q","u","e","s","t"," ","t","i","m","e","d"," ","o","u","t">>
MsgKeyNotFound ==
  <<" ","A","P","I"," ","k","e","y"," ","n","o","t"," ","f","o","u","n","d">>
MsgHttpError ==
  <<"H","T","T","P"," ","e","r","r","o","r","!"," ","s","t","a","t","u","s",
    ":"," ">>
MsgHttpBody ==
  <<","," ","m","e","s","s","a","g","e",":"," ">>
MsgUnknown ==
  <<"U","n","k","n","o","w","n"," ","e","r","r","o","r">>
MsgFailedToFetch ==
  <<"F","a","i","l","e","d"," ","t","o"," ","f","e","t","c","h">>
MsgCannotRead ==
  <<"C","a","n","n","o","t"," ","r","e","a","d"," ","p","r","o","p","e","r",
    "t","i","e","s"," ","o","f"," ","u","n","d","e","f","i","n","e","d"," ",
    "(","r","e","a","d","i","n","g"," ","'","0","'",")">>
MsgBadJson ==
  <<"U","n","e","x","p","e","c","t","e","d"," ","e","n","d"," ","o","f"," ",
    "J","S","O","N"," ","i","n","p","u","t">>
Status401 ==
  <<"4","0","1">>
Status500 ==
  <<"5","0","0">>
BodyInvalidKey ==
  <<"i","n","v","a","l","i","d","_","a","p","i","_","k","e","y">>
FollowUpOpen ==
  <<"F","o","l","l","o","w","i","n","g"," ","u","p"," ","o","n",":"," ",
    "\"">>
FollowUpClose ==
  <<"\"","\n","\n","M","y"," ","q","u","e","s","t","i","o","n",":"," ">>
\* line 848, with userType and queryType null
UserContext ==
  <<"U","s","e","r"," ","T","y","p","e",":"," ","N","o","t"," ","s","p","e",
    "c","i","f","i","e","d","\n","Q","u","e","r","y"," ","T","y","p","e",
    ":"," ","N","o","t"," ","s","p","e","c","i","f","i","e","d","\n","\n">>
\* line 1026
PreviousQuestion ==
  <<"P","r","e","v","i","o","u","s"," ","q","u","e","s","t","i","o","n",":",
    " ">>
PreviousAnswers ==
  <<"\n","P","r","e","v","i","o","u","s"," ","a","n","s","w","e","r","s",
    ":","\n","C","h","a","t","G","P","T",":"," ">>
GeminiAnswer ==
  <<"\n","G","e","m","i","n","i",":"," ">>
PerplexityAnswer ==
  <<"\n","P","e","r","p","l","e","x","i","t","y",":"," ">>
FollowUpQuestion ==
  <<"\n","\n","F","o","l","l","o","w","-","u","p"," ","q","u","e","s","t",
    "i","o","n",":"," ">>
Hello ==
  <<"H","e","l","l","o">>

(***************************************************************************)
(* JavaScript values that travel from an adapter to the orchestrator: a    *)
(* string, undefined, or a value that is neither (an array or an object    *)
(* found where the content string was expected).                           *)
(***************************************************************************)
JsString(s) == [kind |-> "string", text |-> s]
JsUndefined == [kind |-> "undefined", text |-> <<>>]
JsObject    == [kind |-> "object", text |-> <<>>]
\* a promise that has not settled
Pending     == [kind |-> "pending", text |-> <<>>]

\* line 793: a truthy value without a trim method throws a TypeError (line
\* 789 returns '' for the falsy ones: undefined and the empty string)
standardizeThrows(v) == v.kind = "object"

(***************************************************************************)
(* Provider adapters                                                       *)
(***************************************************************************)
Providers == {"chatgpt", "perplexity", "gemini"}

\* the name each adapter writes in its error text
AdapterName(p) ==
  CASE p = "chatgpt"    -> OpenAIName
    [] p = "gemini"     -> GeminiName
    [] p = "perplexity" -> PerplexityName

\* the catch blocks of the adapters: Error (<provider>): <message>
AdapterError(p, message) ==
  JsString(ErrorOpen \o AdapterName(p) \o ErrorClose \o message)

\* What the network does with the one POST of a call:
\*   "reject"  fetch rejects (network failure, or the stack's own timeout)
\*   "status"  a response with a non-2xx status and a body text
\*   "badjson" a 2xx response whose body is not JSON: response.json() rejects
\*   "nopath"  a 2xx JSON body without choices[0].message (candidates[0]
\*             .content.parts[0]): reading the path throws a TypeError
\*   "content" a 2xx JSON body with the path; content is what is found there
Exchange(kind, status, body, message, content) ==
  [kind |-> kind, status |-> status, body |-> body, message |-> message,
   content |-> content]
ExReject(message)      == Exchange("reject", <<>>, <<>>, message, JsUndefined)
ExStatus(status, body) == Exchange("status", status, body, <<>>, JsUndefined)
ExBadJson(message)     == Exchange("badjson", <<>>, <<>>, message, JsUndefined)
ExNoPath(message)      == Exchange("nopath", <<>>, <<>>, message, JsUndefined)
ExContent(content)     == Exchange("content", <<>>, <<>>, <<>>, content)

\* lines 613-616, 662-664, 710-714: the message thrown for a non-2xx status
HttpErrorMessage(p, ex) ==
  IF p = "gemini" THEN MsgHttpError \o ex.status
  ELSE MsgHttpError \o ex.status \o MsgHttpBody \o ex.body

\* what the adapter's promise resolves with once its fetch has settled with ex
AfterFetch(p, ex) ==
  CASE ex.kind = "reject"  -> AdapterError(p, ex.message)
    [] ex.kind = "status"  -> AdapterError(p, HttpErrorMessage(p, ex))
    [] ex.kind = "badjson" -> AdapterError(p, ex.message)
    [] ex.kind = "nopath"  -> AdapterError(p, ex.message)
    [] ex.kind = "content" -> ex.content

\* lines 643-645, 691-693: only these two adapters look at their key
ChecksKey(p) == p \in {"gemini", "perplexity"}
KeyError(p) == AdapterError(p, AdapterName(p) \o MsgKeyNotFound)

\* lines 161-168, 596-611: only callOpenAI races its fetch against a timer
HasTimer(p) == p = "chatgpt"
TimeoutError(p) == AdapterError(p, MsgTimedOut)


(***************************************************************************)
(* Bounds                                                                  *)
(***************************************************************************)
MaxQueries == 2     \* submissions in a behaviour
MaxTime    == 2     \* the last value Date.now() takes
MaxReads   == 1     \* history reads in flight at once
MaxLines   == 3     \* lines of a provider text given to the normalizer

(***************************************************************************)
(* State                                                                   *)
(***************************************************************************)
VARIABLES
  now,            \* Date.now()
  apiKey,         \* API_CONFIG[...].apiKey is set, per provider
  user,           \* useState<User | null>: NoUser or a uid
  query,          \* the text of the query field
  selectedQuery,  \* useState<number | null>: NoSelection or a timestamp
  error,          \* useState<string | null>
  queryHistory,   \* the in-memory history, newest first
  searches,       \* the handleSearch calls so far, each with its three promises
  store,          \* the documents of the 'queries' collection, in append order
  reads,          \* getUserHistory calls in flight
  deleted,        \* log: the timestamps deleted and not submitted again
  call,           \* one adapter call, followed from its start to the slot
  fileName,       \* useState<string>: the name of the uploaded file
  fileContent,    \* useState<string>: the text taken from the uploaded file
  uploads         \* the files handleFileUpload is reading, oldest first

fileVars == <<fileName, fileContent, uploads>>

vars == <<now, apiKey, user, query, selectedQuery, error, queryHistory,
          searches, store, reads, deleted, call, fileVars>>

NoUser      == "null"
Uid         == "u1"
NoSelection == 0
NoError     == "null"
SearchFailed == "Some responses failed to load. Check individual results."
ITEMS_PER_PAGE == 5

\* what the user can type into the query field
TypedTexts == {Hello}

LoadingResponses == [p \in Providers |-> LOADING]

\* lines 856-865
QueryRecord(q, ts, parent, responses) ==
  [query |-> q, timestamp |-> ts, parentId |-> parent, responses |-> responses]

Timestamps(h) == {h[i].timestamp : i \in DOMAIN h}
\* the identity of the records of a history, in order
Identities(h) ==
  [i \in DOMAIN h |-> <<h[i].timestamp, h[i].query, h[i].parentId>>]

\* queryHistory.find(q => q.timestamp === ts): the index of the first, or 0
RECURSIVE FindFrom(_, _, _)
FindFrom(h, ts, i) ==
  IF i > Len(h) THEN 0
  ELSE IF h[i].timestamp = ts THEN i
  ELSE FindFrom(h, ts, i + 1)
find(h, ts) == FindFrom(h, ts, 1)

\* the records ChatHistoryItem is rendered for: currentQueries.slice(1), on
\* page 1 (currentPage is never set)
Listed(h) == {i \in DOMAIN h : 2 <= i /\ i <= ITEMS_PER_PAGE}

(***************************************************************************)
(* The answers of the providers the orchestrator is run with.  The three   *)
(* adapters are handled alike by handleSearch, so the rarer answers are    *)
(* tried on one provider each.                                             *)
(***************************************************************************)
MainExchanges(p) ==
  CASE p = "chatgpt"    -> {ExContent(JsString(CannedText))}
    [] p = "gemini"     -> {ExContent(JsString(CannedText)),
                            ExContent(JsString(LOADING))}
    [] p = "perplexity" -> {ExContent(JsString(CannedText)),
                            ExContent(JsUndefined)}

\* The texts the adapters of the model can return, normalized once: the
\* model checker evaluates this table once instead of once per state.
KnownTexts ==
  {r.text : r \in {x \in UNION {{AfterFetch(p, ex) : ex \in MainExchanges(p)}
                                  \cup {KeyError(p), TimeoutError(p)} :
                                p \in Providers} : x.kind = "string"}}
Standardized == [t \in KnownTexts |-> standardizeText(t)]

\* standardizeResponse, lines 788-835
standardizeResponse(v) ==
  IF v.kind = "string" /\ v.text # <<>>
  THEN IF v.text \in KnownTexts THEN Standardized[v.text]
       ELSE standardizeText(v.text)
  ELSE <<>>

\* every value the promise of adapter p can resolve with
callResults(p) ==
  IF ChecksKey(p) /\ ~apiKey[p] THEN {KeyError(p)}
  ELSE {AfterFetch(p, ex) : ex \in MainExchanges(p)}
         \cup (IF HasTimer(p) THEN {TimeoutError(p)} ELSE {})

\* no adapter call is being followed
\*   posts  the HTTP POSTs the call has issued
\*   net    its fetch: "none" (not issued), "pending" or "settled"
\*   timer  the timer of timeoutPromise: "none", "armed" or "fired"
\*   race   what settled the awaited promise: "open", "fetch" or "timer"
NoCall ==
  [provider |-> "none", phase |-> "idle", ex |-> <<>>, failed |-> FALSE,
   result |-> Pending, slot |-> <<>>, again |-> <<>>,
   posts |-> 0, net |-> "none", timer |-> "none", race |-> "open"]

(***************************************************************************)
(* Init                                                                    *)
(***************************************************************************)
Init ==
  /\ now = 1
  /\ apiKey = [p \in Providers |-> TRUE]
  /\ user = NoUser
  /\ query = <<>>
  /\ selectedQuery = NoSelection
  /\ error = NoError
  /\ queryHistory = <<>>
  /\ searches = <<>>
  /\ store = <<>>
  /\ reads = 0
  /\ deleted = {}
  /\ fileName = ""
  /\ fileContent = <<>>
  /\ uploads = <<>>
  /\ call = NoCall

(***************************************************************************)
(* The clock and the query field                                           *)
(***************************************************************************)
Tick ==
  /\ now < MaxTime
  /\ now' = now + 1
  /\ UNCHANGED <<apiKey, user, query, selectedQuery, error, queryHistory,
                 searches, store, reads, deleted, call, fileVars>>

\* line 1051: onChange
setQuery(text) ==
  /\ query # text
  /\ query' = text
  /\ UNCHANGED <<now, apiKey, user, selectedQuery, error, queryHistory,
                 searches, store, reads, deleted, call, fileVars>>

(***************************************************************************)
(* handleSearch, lines 837-946                                             *)
(***************************************************************************)
\* lines 843-845
parentQuery ==
  IF selectedQuery # NoSelection THEN find(queryHistory, selectedQuery) ELSE 0
\* line 859: parentQuery?.timestamp
parentId == IF parentQuery # 0 THEN queryHistory[parentQuery].timestamp ELSE 0

\* lines 856-865
newQuery == QueryRecord(trim(query), now, parentId, LoadingResponses)

\* sensitivity of C13: the answer of Gemini left out of the context
createPromptWithContext_NoGemini(prompt, parent) ==
  IF parent = 0 THEN prompt
  ELSE PreviousQuestion \o queryHistory[parent].query
         \o PreviousAnswers \o queryHistory[parent].responses["chatgpt"]
         \o PerplexityAnswer \o queryHistory[parent].responses["perplexity"]
         \o FollowUpQuestion \o prompt

\* lines 1024-1027; parent is the index of the parent record, or 0
createPromptWithContext(prompt, parent) ==
  IF parent = 0 THEN prompt
  ELSE PreviousQuestion \o queryHistory[parent].query
         \o PreviousAnswers \o queryHistory[parent].responses["chatgpt"]
         \o GeminiAnswer \o queryHistory[parent].responses["gemini"]
         \o PerplexityAnswer \o queryHistory[parent].responses["perplexity"]
         \o FollowUpQuestion \o prompt

\* lines 848-854: the prompt handed to the three adapters
contextualPrompt ==
  UserContext \o createPromptWithContext(query, parentQuery)

\* sensitivity of C3: the new record put at the tail
Prepended_AtTail(h, rec) ==
  LET all == h \o <<rec>>
  IN  [i \in DOMAIN all |->
         IF all[i].timestamp = rec.timestamp
         THEN [all[i] EXCEPT !.responses = LoadingResponses]
         ELSE all[i]]

\* lines 868-887: prepend, then set the slots of the records with the new
\* timestamp to the sentinel
Prepended(h, rec) ==
  LET all == <<rec>> \o h
  IN  [i \in DOMAIN all |->
         IF all[i].timestamp = rec.timestamp
         THEN [all[i] EXCEPT !.responses = LoadingResponses]
         ELSE all[i]]

\* sensitivity of C11: the join set up whether or not there is a user
NewSearch_AlwaysJoins ==
  [timestamp |-> now,
   uid       |-> user,
   text      |-> trim(query),
   prompt    |-> contextualPrompt,
   result    |-> [p \in Providers |-> Pending],
   join      |-> "waiting",
   doc       |-> <<>>,
   appends   |-> 0,
   orphan    |-> FALSE]

\* the promises and the join a call of handleSearch leaves behind
NewSearch ==
  [timestamp |-> now,
   uid       |-> user,
   text      |-> trim(query),
   prompt    |-> contextualPrompt,
   result    |-> [p \in Providers |-> Pending],
   join      |-> IF user # NoUser THEN "waiting" ELSE "none",
   doc       |-> <<>>,
   appends   |-> 0,
   orphan    |-> FALSE]

\* sensitivity of C24: a submission that ends the follow-up
handleSearch_ClearsSelection ==
  /\ trim(query) # <<>>
  /\ Len(searches) < MaxQueries
  /\ queryHistory' = Prepended(queryHistory, newQuery)
  /\ searches' = Append(searches, NewSearch)
  /\ deleted' = deleted \ {now}
  /\ selectedQuery' = NoSelection
  /\ UNCHANGED <<now, apiKey, user, query, error, store, reads, call,
                 fileVars>>

handleSearch ==
  /\ trim(query) # <<>>                       \* line 839
  /\ Len(searches) < MaxQueries
  /\ queryHistory' = Prepended(queryHistory, newQuery)
  /\ searches' = Append(searches, NewSearch)
  /\ deleted' = deleted \ {now}
  /\ UNCHANGED <<now, apiKey, user, query, selectedQuery, error, store, reads,
                 call, fileVars>>


(***************************************************************************)
(* updateResponse (lines 890-918) and the join (lines 926-939), run when   *)
(* the promise of adapter p of search s resolves with r                    *)
(***************************************************************************)
\* sensitivity of C2: a failure of one adapter written over all three slots
updateResponse_AllSlots(h, ts, p, r) ==
  [i \in DOMAIN h |->
     IF h[i].timestamp = ts
     THEN IF r = TimeoutError(p)
          THEN [h[i] EXCEPT
                  !.responses = [x \in Providers |-> standardizeResponse(r)]]
          ELSE [h[i] EXCEPT !.responses[p] = standardizeResponse(r)]
     ELSE h[i]]

\* sensitivity of C8: the updated records move to the head
updateResponse_ToHead(h, ts, p, r) ==
  LET m == [i \in DOMAIN h |->
              IF h[i].timestamp = ts
              THEN [h[i] EXCEPT !.responses[p] = standardizeResponse(r)]
              ELSE h[i]]
  IN  SelectSeq(m, LAMBDA q : q.timestamp = ts)
        \o SelectSeq(m, LAMBDA q : q.timestamp # ts)

\* lines 893-903, for a result standardizeResponse takes.  The catch of
\* lines 904-917 is for a promise that rejects, and no adapter's does.
updateResponse(h, ts, p, r) ==
  [i \in DOMAIN h |->
     IF h[i].timestamp = ts
     THEN [h[i] EXCEPT !.responses[p] = standardizeResponse(r)]
     ELSE h[i]]

\* sensitivity of C9: a join that fires with the first promise
AllResolved_Some(result) == \E p \in Providers : result[p] # Pending

\* Promise.all: every promise of the search has resolved
AllResolved(result) == \A p \in Providers : result[p] # Pending

\* lines 766-781: the document storeQueryAndResponses hands to addDoc
StoreDoc(uid, text, result, ts) ==
  [userId    |-> uid,
   query     |-> text,
   responses |-> [p \in Providers |-> standardizeResponse(result[p])],
   timestamp |-> ts]

\* sensitivity of C21: no append for a search whose record was deleted
Joined_UnlessDeleted(sr, p, r) ==
  LET result == [sr.result EXCEPT ![p] = r]
  IN  IF sr.join = "waiting" /\ AllResolved(result)
           /\ find(queryHistory, sr.timestamp) # 0
      THEN [sr EXCEPT !.result = result, !.join = "writing",
                      !.doc = <<StoreDoc(sr.uid, sr.text, result, now)>>,
                      !.appends = @ + 1]
      ELSE [sr EXCEPT !.result = result]

\* lines 926-939: the search after promise p resolved with r.  orphan
\* notes whether the history had no record of the search when the join
\* fired.
Joined(sr, p, r) ==
  LET result == [sr.result EXCEPT ![p] = r]
  IN  IF sr.join = "waiting" /\ AllResolved(result)
      THEN [sr EXCEPT !.result = result, !.join = "writing",
                      !.doc = <<StoreDoc(sr.uid, sr.text, result, now)>>,
                      !.appends = @ + 1,
                      !.orphan = find(queryHistory, sr.timestamp) = 0]
      ELSE [sr EXCEPT !.result = result]

resolve(s, p, r) ==
  /\ searches[s].result[p] = Pending
  /\ queryHistory' = updateResponse(queryHistory, searches[s].timestamp, p, r)
  /\ searches' = [searches EXCEPT ![s] = Joined(searches[s], p, r)]
  /\ UNCHANGED <<now, apiKey, user, query, selectedQuery, error, store, reads,
                 deleted, call, fileVars>>

(***************************************************************************)
(* The history store: addDoc settles, lines 773-784                        *)
(***************************************************************************)
addDocDone(s) ==
  /\ searches[s].join = "writing"
  /\ store' = Append(store, searches[s].doc[1])
  /\ searches' = [searches EXCEPT ![s].join = "stored", ![s].doc = <<>>]
  /\ UNCHANGED <<now, apiKey, user, query, selectedQuery, error, queryHistory,
                 reads, deleted, call, fileVars>>

\* sensitivity of C10: a failed write that takes the record back and
\* shows an error
addDocFailed_RollsBack(s) ==
  /\ searches[s].join = "writing"
  /\ searches' = [searches EXCEPT ![s].join = "failed", ![s].doc = <<>>]
  /\ queryHistory' = SelectSeq(queryHistory,
                       LAMBDA q : q.timestamp # searches[s].timestamp)
  /\ error' = SearchFailed
  /\ UNCHANGED <<now, apiKey, user, query, selectedQuery, store, reads,
                 deleted, call, fileVars>>

\* the catch of lines 782-784 logs and returns
addDocFailed(s) ==
  /\ searches[s].join = "writing"
  /\ searches' = [searches EXCEPT ![s].join = "failed", ![s].doc = <<>>]
  /\ UNCHANGED <<now, apiKey, user, query, selectedQuery, error, queryHistory,
                 store, reads, deleted, call, fileVars>>

(***************************************************************************)
(* Authentication and loadUserHistory, lines 557-565 and 730-763           *)
(***************************************************************************)
\* onAuthStateChanged with a user: setUser, and the effect of line 730
\* starts getUserHistory
signIn ==
  /\ user = NoUser
  /\ reads < MaxReads
  /\ user' = Uid
  /\ reads' = reads + 1
  /\ UNCHANGED <<now, apiKey, query, selectedQuery, error, queryHistory,
                 searches, store, deleted, call, fileVars>>

\* onAuthStateChanged with null: the effect runs and does nothing
signOut ==
  /\ user # NoUser
  /\ user' = NoUser
  /\ UNCHANGED <<now, apiKey, query, selectedQuery, error, queryHistory,
                 searches, store, reads, deleted, call, fileVars>>

\* the documents of a user
DocsOf(uid) == SelectSeq(store, LAMBDA d : d.userId = uid)

\* orderBy('timestamp', 'desc'): every order of the documents with the
\* timestamps descending (documents with one timestamp come in any order)
Listings(docs) ==
  {l \in [DOMAIN docs -> DOMAIN docs] :
     /\ \A i, j \in DOMAIN docs : i # j => l[i] # l[j]
     /\ \A i, j \in DOMAIN docs :
          i < j => docs[l[i]].timestamp >= docs[l[j]].timestamp}

\* lines 743-758: limit(ITEMS_PER_PAGE * 2), and the fields the map keeps
getUserHistory(docs, l) ==
  [i \in 1..(IF Len(docs) < ITEMS_PER_PAGE * 2 THEN Len(docs)
             ELSE ITEMS_PER_PAGE * 2) |->
     QueryRecord(docs[l[i]].query, docs[l[i]].timestamp, 0,
                 docs[l[i]].responses)]

\* lines 733-734: the read returns and replaces the history
loadUserHistory ==
  /\ reads > 0
  /\ \E l \in Listings(DocsOf(Uid)) :
       queryHistory' = getUserHistory(DocsOf(Uid), l)
  /\ reads' = reads - 1
  /\ UNCHANGED <<now, apiKey, user, query, selectedQuery, error, searches,
                 store, deleted, call, fileVars>>

\* lines 759-762: the read fails and getUserHistory returns []
loadUserHistoryFailed ==
  /\ reads > 0
  /\ queryHistory' = <<>>
  /\ reads' = reads - 1
  /\ UNCHANGED <<now, apiKey, user, query, selectedQuery, error, searches,
                 store, deleted, call, fileVars>>

(***************************************************************************)
(* The history handlers, lines 1010-1021                                   *)
(***************************************************************************)
handleFollowUp(q, ts) ==
  /\ query' = FollowUpOpen \o q \o FollowUpClose
  /\ selectedQuery' = ts
  /\ UNCHANGED <<now, apiKey, user, error, queryHistory, searches, store,
                 reads, deleted, call, fileVars>>

\* sensitivity of C12: only the first record with the timestamp removed
handleDeleteQuery_FirstOnly(ts) ==
  /\ queryHistory' =
       [i \in 1..(Len(queryHistory) - 1) |->
          IF i < find(queryHistory, ts) THEN queryHistory[i]
          ELSE queryHistory[i + 1]]
  /\ deleted' = deleted \cup {ts}
  /\ UNCHANGED <<now, apiKey, user, query, selectedQuery, error, searches,
                 store, reads, call, fileVars>>

handleDeleteQuery(ts) ==
  /\ queryHistory' = SelectSeq(queryHistory, LAMBDA item : item.timestamp # ts)
  /\ deleted' = deleted \cup {ts}
  /\ UNCHANGED <<now, apiKey, user, query, selectedQuery, error, searches,
                 store, reads, call, fileVars>>

(***************************************************************************)
(* One adapter call, step by step: callOpenAI (lines 578-624), callGemini  *)
(* (625-671), callPerplexity (673-727), and the slot updateResponse writes *)
(***************************************************************************)
\* what the network can do with the POST of adapter p
Exchanges(p) ==
  {ExReject(MsgFailedToFetch),
   ExStatus(Status401, BodyInvalidKey),
   ExStatus(Status500, <<>>),
   ExBadJson(MsgBadJson),
   ExNoPath(MsgCannotRead),
   ExContent(JsString(CannedText)),
   ExContent(JsString(<<>>)),
   ExContent(JsUndefined),
   ExContent(JsObject)}

\* the exchanges that are a provider failure: everything but a 2xx response
\* with a string where the adapter reads the content
ExFailure(ex) == ex.kind # "content" \/ ex.content.kind # "string"

\* callAdapter without the key check of lines 643-645 and 691-693
callAdapter_NoKeyCheck(p) ==
  /\ call.phase = "idle"
  /\ call' = [call EXCEPT !.provider = p, !.phase = "fetching",
                          !.posts = call.posts + 1, !.net = "pending",
                          !.timer = IF HasTimer(p) THEN "armed" ELSE "none"]
  /\ UNCHANGED <<now, apiKey, user, query, selectedQuery, error, queryHistory,
                 searches, store, reads, deleted, fileVars>>

\* the adapter is called: the key check of callGemini and callPerplexity
\* throws into the catch, otherwise the POST goes out (and callOpenAI
\* starts the timer of timeoutPromise)
callAdapter(p) ==
  /\ call.phase = "idle"
  /\ call' = IF ChecksKey(p) /\ ~apiKey[p]
             THEN [call EXCEPT !.provider = p, !.phase = "resolved",
                               !.failed = TRUE, !.result = KeyError(p)]
             ELSE [call EXCEPT !.provider = p, !.phase = "fetching",
                               !.posts = call.posts + 1, !.net = "pending",
                               !.timer = IF HasTimer(p) THEN "armed"
                                         ELSE "none"]
  /\ UNCHANGED <<now, apiKey, user, query, selectedQuery, error, queryHistory,
                 searches, store, reads, deleted, fileVars>>

\* fetch settles: a rejection and a non-2xx status end in the catch, a 2xx
\* response goes on to response.json()
fetchSettles(ex) ==
  /\ call.phase = "fetching"
  /\ call' = IF ex.kind \in {"reject", "status"}
             THEN [call EXCEPT !.phase = "resolved", !.ex = <<ex>>,
                               !.failed = TRUE,
                               !.result = AfterFetch(call.provider, ex),
                               !.net = "settled", !.race = "fetch"]
             ELSE [call EXCEPT !.phase = "reading", !.ex = <<ex>>,
                               !.net = "settled", !.race = "fetch"]
  /\ UNCHANGED <<now, apiKey, user, query, selectedQuery, error, queryHistory,
                 searches, store, reads, deleted, fileVars>>

\* lines 161-168: the timer of timeoutPromise wins the race against fetch
timerFires ==
  /\ call.phase = "fetching"
  /\ HasTimer(call.provider)
  /\ call' = [call EXCEPT !.phase = "resolved", !.failed = TRUE,
                          !.result = TimeoutError(call.provider),
                          !.timer = "fired", !.race = "timer"]
  /\ UNCHANGED <<now, apiKey, user, query, selectedQuery, error, queryHistory,
                 searches, store, reads, deleted, fileVars>>

\* the late response taken as the adapter's result
fetchSettlesLate_Overwrites ==
  /\ call.net = "pending"
  /\ call.race = "timer"
  /\ \E ex \in Exchanges(call.provider) :
       call' = [call EXCEPT !.net = "settled",
                            !.result = AfterFetch(call.provider, ex)]
  /\ UNCHANGED <<now, apiKey, user, query, selectedQuery, error, queryHistory,
                 searches, store, reads, deleted, fileVars>>

\* lines 161-167: the fetch is not aborted when the timer wins; when it
\* settles, Promise.race has settled already and nobody awaits it
fetchSettlesLate ==
  /\ call.net = "pending"
  /\ call.race = "timer"
  /\ call' = [call EXCEPT !.net = "settled"]
  /\ UNCHANGED <<now, apiKey, user, query, selectedQuery, error, queryHistory,
                 searches, store, reads, deleted, fileVars>>

\* lines 161-167: the timer is not cleared when the fetch wins; when it
\* fires, its reject is that of a promise Promise.race no longer follows
timerFiresLate ==
  /\ call.timer = "armed"
  /\ call.race = "fetch"
  /\ call' = [call EXCEPT !.timer = "fired"]
  /\ UNCHANGED <<now, apiKey, user, query, selectedQuery, error, queryHistory,
                 searches, store, reads, deleted, fileVars>>

\* response.json() settles and the adapter returns what it finds at the
\* content path
bodyRead ==
  /\ call.phase = "reading"
  /\ call' = [call EXCEPT !.phase = "resolved",
                          !.failed = ExFailure(call.ex[1]),
                          !.result = AfterFetch(call.provider, call.ex[1])]
  /\ UNCHANGED <<now, apiKey, user, query, selectedQuery, error, queryHistory,
                 searches, store, reads, deleted, fileVars>>

\* lines 893-903: updateResponse puts the result into the slot
slotWritten ==
  /\ call.phase = "resolved"
  /\ ~standardizeThrows(call.result)
  /\ call' = [call EXCEPT !.phase = "written",
                          !.slot = standardizeResponse(call.result)]
  /\ UNCHANGED <<now, apiKey, user, query, selectedQuery, error, queryHistory,
                 searches, store, reads, deleted, fileVars>>

\* line 899 runs inside the updater handed to setQueryHistory, so with a
\* result that has no trim method the TypeError of line 793 is thrown while
\* the page renders, outside the try of updateResponse: no slot is written
renderThrows ==
  /\ call.phase = "resolved"
  /\ standardizeThrows(call.result)
  /\ call' = [call EXCEPT !.phase = "thrown"]
  /\ UNCHANGED <<now, apiKey, user, query, selectedQuery, error, queryHistory,
                 searches, store, reads, deleted, fileVars>>

CallAdapter == \E p \in Providers : callAdapter(p)
FetchSettles == \E ex \in Exchanges(call.provider) : fetchSettles(ex)

\* the environment of a build: which keys are configured
AdapterInit ==
  /\ now = 1
  /\ apiKey \in [Providers -> BOOLEAN]
  /\ user = NoUser
  /\ query = <<>>
  /\ selectedQuery = NoSelection
  /\ error = NoError
  /\ queryHistory = <<>>
  /\ searches = <<>>
  /\ store = <<>>
  /\ reads = 0
  /\ deleted = {}
  /\ fileName = ""
  /\ fileContent = <<>>
  /\ uploads = <<>>
  /\ call = NoCall

AdapterNext ==
  \/ CallAdapter
  \/ FetchSettles
  \/ timerFires
  \/ fetchSettlesLate
  \/ timerFiresLate
  \/ bodyRead
  \/ slotWritten
  \/ renderThrows

(***************************************************************************)
(* The normalizer on the texts of a provider: a call that resolved with a  *)
(* text of up to MaxLines lines, the slot written from it (slotWritten),   *)
(* and the normalizer applied to the slot again                            *)
(***************************************************************************)
\* the lines the texts are made of
LineVocabulary ==
  {<<"#", " ", "h">>,
   <<"#", "#", " ", "h">>,
   <<"#", "#", "#", " ", "h">>,
   <<" ", "#", " ", "g">>,
   <<"a">>,
   <<>>,
   <<"-", " ", "a">>,
   <<"*", " ", "a">>,
   <<"1", ".", " ", "a">>,
   <<">", " ", "a">>,
   Fence}

\* lines.join('\n')
RECURSIVE JoinLines(_)
JoinLines(lines) ==
  IF lines = <<>> THEN <<>>
  ELSE IF Len(lines) = 1 THEN lines[1]
  ELSE lines[1] \o <<"\n">> \o JoinLines(Tail(lines))

ProviderTexts ==
  {JoinLines(lines) :
     lines \in UNION {[1..n -> LineVocabulary] : n \in 1..MaxLines}}

NormInit ==
  /\ now = 1
  /\ apiKey = [p \in Providers |-> TRUE]
  /\ user = NoUser
  /\ query = <<>>
  /\ selectedQuery = NoSelection
  /\ error = NoError
  /\ queryHistory = <<>>
  /\ searches = <<>>
  /\ store = <<>>
  /\ reads = 0
  /\ deleted = {}
  /\ fileName = ""
  /\ fileContent = <<>>
  /\ uploads = <<>>
  /\ \E text \in ProviderTexts :
       call = [NoCall EXCEPT !.provider = "chatgpt", !.phase = "resolved",
                             !.result = JsString(text)]

\* standardizeResponse applied to its own output
normalizeAgain ==
  /\ call.phase = "written"
  /\ call' = [call EXCEPT !.phase = "again",
                          !.again = standardizeResponse(JsString(call.slot))]
  /\ UNCHANGED <<now, apiKey, user, query, selectedQuery, error, queryHistory,
                 searches, store, reads, deleted, fileVars>>

NormNext ==
  \/ slotWritten
  \/ normalizeAgain

(***************************************************************************)
(* The page with two earlier queries, for the follow-ups: the button is   *)
(* on the records behind the head only                                     *)
(***************************************************************************)
\* the timestamps of two queries made before the clock of the model starts
EarlierHead == -1
EarlierListed == -2

\* the slot of a promise: the sentinel while it is pending
SlotOf(r) == IF r = Pending THEN LOADING ELSE standardizeResponse(r)

\* The head record has its three answers and its search is not kept; of
\* the search of the listed record any of the calls may have answered.
FollowInit ==
  /\ now = 1
  /\ apiKey = [p \in Providers |-> TRUE]
  /\ user = NoUser
  /\ query = <<>>
  /\ selectedQuery = NoSelection
  /\ error = NoError
  /\ \E result \in [Providers -> {Pending, JsString(CannedText)}] :
       /\ queryHistory =
            <<QueryRecord(Hello, EarlierHead, 0,
                          [p \in Providers |-> Standardized[CannedText]]),
              QueryRecord(Hello, EarlierListed, 0,
                          [p \in Providers |-> SlotOf(result[p])])>>
       /\ searches =
            <<[timestamp |-> EarlierListed,
               uid       |-> NoUser,
               text      |-> Hello,
               prompt    |-> UserContext \o Hello,
               result    |-> result,
               join      |-> "none",
               doc       |-> <<>>,
               appends   |-> 0,
               orphan    |-> FALSE]>>
  /\ store = <<>>
  /\ reads = 0
  /\ deleted = {}
  /\ fileName = ""
  /\ fileContent = <<>>
  /\ uploads = <<>>
  /\ call = NoCall

\* The page with the two earlier queries both answered and no call in
\* flight: two more submissions can follow a follow-up.
AnsweredInit ==
  /\ now = 1
  /\ apiKey = [p \in Providers |-> TRUE]
  /\ user = NoUser
  /\ query = <<>>
  /\ selectedQuery = NoSelection
  /\ error = NoError
  /\ queryHistory =
       <<QueryRecord(Hello, EarlierHead, 0,
                     [p \in Providers |-> Standardized[CannedText]]),
         QueryRecord(Hello, EarlierListed, 0,
                     [p \in Providers |-> Standardized[CannedText]])>>
  /\ searches = <<>>
  /\ store = <<>>
  /\ reads = 0
  /\ deleted = {}
  /\ fileName = ""
  /\ fileContent = <<>>
  /\ uploads = <<>>
  /\ call = NoCall

(***************************************************************************)
(* File upload, lines 948-986                                              *)
(***************************************************************************)
MaxFileLength == 50000   \* line 974: content.length > 50000
MaxUploads    == 2       \* files being read at once

FileTooLarge == "File content is too large. Please upload a smaller file."
UnsupportedFile == "Error processing file: Unsupported file type"

Repeat(c, n) == [i \in 1..n |-> c]
Remove(seq, i) == SubSeq(seq, 1, i - 1) \o SubSeq(seq, i + 1, Len(seq))

\* The files the user can choose.  kind is the processor that
\* SUPPORTED_FILE_TYPES has for the file's name or type (lines 951-954),
\* "none" when it has no entry; text is what file.text() gives.
Files ==
  { [name |-> "notes.txt", kind |-> "text", text |-> Hello],
    [name |-> "limit.txt", kind |-> "text",
     text |-> Repeat("x", MaxFileLength)],
    [name |-> "large.txt", kind |-> "text",
     text |-> Repeat("x", MaxFileLength + 1)],
    [name |-> "tool.exe", kind |-> "none", text |-> Hello] }

\* lines 949-964; fileProcessors.text, lines 53-55
readFileContent(file) ==
  IF file.kind = "none"
    THEN [threw |-> TRUE, message |-> UnsupportedFile, content |-> <<>>]
    ELSE [threw |-> FALSE, message |-> "", content |-> file.text]

\* lines 966-973: up to the await of readFileContent
handleFileUpload(file) ==
  /\ Len(uploads) < MaxUploads
  /\ fileName' = file.name
  /\ error' = NoError
  /\ uploads' = Append(uploads, file)
  /\ UNCHANGED <<now, apiKey, user, query, selectedQuery, queryHistory,
                 searches, store, reads, deleted, call, fileContent>>

\* fileRead with the query field filled before the length is looked at
fileRead_QueryFirst(i) ==
  LET read == readFileContent(uploads[i]) IN
  /\ uploads' = Remove(uploads, i)
  /\ IF read.threw \/ Len(read.content) > MaxFileLength
       THEN /\ fileName' = ""
            /\ fileContent' = <<>>
            /\ error' = IF read.threw THEN read.message ELSE FileTooLarge
            /\ query' = IF read.threw THEN query ELSE read.content
       ELSE /\ fileContent' = read.content
            /\ query' = read.content
            /\ UNCHANGED <<fileName, error>>
  /\ UNCHANGED <<now, apiKey, user, selectedQuery, queryHistory, searches,
                 store, reads, deleted, call>>

\* lines 973-985: readFileContent has settled for the i-th file being read
fileRead(i) ==
  LET read == readFileContent(uploads[i]) IN
  /\ uploads' = Remove(uploads, i)
  /\ IF read.threw \/ Len(read.content) > MaxFileLength
       THEN /\ fileName' = ""
            /\ fileContent' = <<>>
            /\ error' = IF read.threw THEN read.message ELSE FileTooLarge
            /\ UNCHANGED query
       ELSE /\ fileContent' = read.content
            /\ query' = read.content
            /\ UNCHANGED <<fileName, error>>
  /\ UNCHANGED <<now, apiKey, user, selectedQuery, queryHistory, searches,
                 store, reads, deleted, call>>

(***************************************************************************)
(* Next                                                                    *)
(***************************************************************************)
Type == \E text \in TypedTexts : setQuery(text)
Resolve ==
  \E s \in DOMAIN searches : \E p \in Providers : \E r \in callResults(p) :
    resolve(s, p, r)
AddDocDone == \E s \in DOMAIN searches : addDocDone(s)
AddDocFailed == \E s \in DOMAIN searches : addDocFailed(s)
FollowUp ==
  \E i \in Listed(queryHistory) :
    handleFollowUp(queryHistory[i].query, queryHistory[i].timestamp)
Delete ==
  \E i \in Listed(queryHistory) : handleDeleteQuery(queryHistory[i].timestamp)
UploadFile == \E file \in Files : handleFileUpload(file)
FileRead == \E i \in DOMAIN uploads : fileRead(i)

\* The page without an identity: the clock, the query field, the
\* orchestrator and the history handlers.
NextLocal ==
  \/ Tick
  \/ Type
  \/ handleSearch
  \/ Resolve
  \/ FollowUp
  \/ Delete

\* The page while its calls are in flight: the clock, the query field,
\* submissions and the buttons of the history.
NextPending ==
  \/ Tick
  \/ Type
  \/ handleSearch
  \/ FollowUp
  \/ Delete

\* The page with the authentication provider and the history store.
NextStore ==
  \/ Tick
  \/ Type
  \/ handleSearch
  \/ Resolve
  \/ Delete
  \/ AddDocDone
  \/ AddDocFailed
  \/ signIn
  \/ signOut
  \/ loadUserHistory
  \/ loadUserHistoryFailed

\* The file input of the page.
NextUpload ==
  \/ Type
  \/ UploadFile
  \/ FileRead

Next == NextLocal \/ NextStore \/ NextUpload

Spec == Init /\ [][Next]_vars
LocalSpec == Init /\ [][NextLocal]_vars
NormSpec == NormInit /\ [][NormNext]_vars
FollowSpec == FollowInit /\ [][NextLocal]_vars
AnsweredSpec == AnsweredInit /\ [][NextPending]_vars
AdapterSpec == AdapterInit /\ [][AdapterNext]_vars
StoreSpec == Init /\ [][NextStore]_vars
UploadSpec == Init /\ [][NextUpload]_vars

(***************************************************************************)
(* Steps, told by what they change                                         *)
(***************************************************************************)
\* handleSearch ran: one more search
Submitted == Len(searches') = Len(searches) + 1
\* the promise of adapter p of search s resolved
Resolved(s, p) ==
  /\ s \in DOMAIN searches
  /\ searches[s].result[p] = Pending
  /\ searches'[s].result[p] # Pending
\* a history read returned
Loaded == reads' < reads

AllLoading(rec) == \A p \in Providers : rec.responses[p] = LOADING


IsAdapterError(p, v) ==
  LET open == ErrorOpen \o AdapterName(p) \o ErrorClose
  IN  v.kind = "string" /\ Len(v.text) >= Len(open)
        /\ SubSeq(v.text, 1, Len(open)) = open

(***************************************************************************)
(* Claims                                                                  *)
(***************************************************************************)
\* C1 (as claimed): a slot is written by one completion only.  A completion
\* writes only slots that still hold the sentinel, and a slot that holds
\* another value keeps it in every step that keeps its record, a submission
\* included (which moves the record one place down).
C1_WrittenOnce ==
  [][/\ \A s \in DOMAIN searches : \A p \in Providers :
          Resolved(s, p) =>
            \A i \in DOMAIN queryHistory :
              queryHistory[i].timestamp = searches[s].timestamp
                => queryHistory[i].responses[p] = LOADING
     /\ Len(queryHistory') = Len(queryHistory) /\ ~Loaded =>
          \A i \in DOMAIN queryHistory : \A p \in Providers :
            queryHistory[i].responses[p] # LOADING
              => queryHistory'[i].responses[p] = queryHistory[i].responses[p]
     /\ Submitted =>
          \A i \in DOMAIN queryHistory : \A p \in Providers :
            queryHistory[i].responses[p] # LOADING
              => queryHistory'[i + 1].responses[p] = queryHistory[i].responses[p]
    ]_vars

\* C2: when the promise of adapter p of a search resolves with r, whatever
\* the other two promises are, slot p of the records of that search is
\* written in the same step with the value r alone determines, the other
\* two slots of every record keep their values and the other two promises
\* stay as they are; and a pending promise can resolve with each of its
\* results in every state, whatever has become of the other two.
C2_WriteIsOwn ==
  \A s \in DOMAIN searches : \A p \in Providers :
    Resolved(s, p) =>
      /\ \A i \in DOMAIN queryHistory :
           /\ queryHistory[i].timestamp = searches[s].timestamp
                => queryHistory'[i].responses[p] =
                     standardizeResponse(searches'[s].result[p])
           /\ \A q \in Providers \ {p} :
                queryHistory'[i].responses[q] = queryHistory[i].responses[q]
      /\ \A q \in Providers \ {p} :
           searches'[s].result[q] = searches[s].result[q]
C2_NeverHeldBack ==
  \A s \in DOMAIN searches : \A p \in Providers :
    searches[s].result[p] = Pending
      => \A r \in callResults(p) : ENABLED resolve(s, p, r)
C4_CompletionFrame ==
  [][\A s \in DOMAIN searches : \A p \in Providers :
       Resolved(s, p) /\ searches'[s].result[p].kind = "string" =>
         /\ Len(queryHistory') = Len(queryHistory)
         /\ \A i, j \in DOMAIN queryHistory :
              queryHistory'[i] # queryHistory[i]
                /\ queryHistory'[j] # queryHistory[j] => i = j
         /\ \A i \in DOMAIN queryHistory :
              queryHistory'[i] # queryHistory[i] =>
                /\ queryHistory[i].timestamp = searches[s].timestamp
                /\ queryHistory'[i] =
                     [queryHistory[i] EXCEPT !.responses[p] =
                        standardizeResponse(searches'[s].result[p])]
    ]_vars

\* C5 (as claimed): whenever the call of an adapter ends after a provider
\* failure (no key, a rejected fetch, the timer, a non-2xx status, a body
\* that is not JSON or not of the expected shape), its promise has resolved
\* with a string that starts with "Error (<provider>): ".
C5_ErrorsStayInside ==
  call.phase \in {"resolved", "written", "thrown"} /\ call.failed
    => IsAdapterError(call.provider, call.result)

\* C6 (as claimed): no slot of a record of the history holds the sentinel
\* once the promise of its provider, of a search with the timestamp of the
\* record, has resolved.
C6_NoSlotLeftLoading ==
  \A s \in DOMAIN searches : \A p \in Providers :
    searches[s].result[p] # Pending =>
      \A i \in DOMAIN queryHistory :
        queryHistory[i].timestamp = searches[s].timestamp
          => queryHistory[i].responses[p] # LOADING

\* C7 (as claimed): a deleted timestamp that was not submitted again is the
\* timestamp of no record of the history.
C7_DeletedStaysOut == deleted \cap Timestamps(queryHistory) = {}

\* C8: the history is newest first; a submission puts its record at the
\* head and keeps the records behind it in their order, and the completion
\* of a provider, with a text or with a failure, keeps the records, their
\* number and their order.
C8_InsertionOrder ==
  [][/\ \A i, j \in DOMAIN queryHistory' :
          i < j => queryHistory'[i].timestamp >= queryHistory'[j].timestamp
     /\ Submitted =>
          /\ queryHistory'[1].timestamp = now
          /\ Identities(Tail(queryHistory')) = Identities(queryHistory)
     /\ (\E s \in DOMAIN searches : \E p \in Providers : Resolved(s, p)) =>
          Identities(queryHistory') = Identities(queryHistory)
    ]_vars

\* an answer and a failure have been written into the older of two records
C8_Witness ==
  /\ Len(queryHistory) = 2
  /\ queryHistory[1].timestamp > queryHistory[2].timestamp
  /\ AllLoading(queryHistory[1])
  /\ queryHistory[2].responses["chatgpt"] =
         Standardized[TimeoutError("chatgpt").text]
  /\ queryHistory[2].responses["gemini"] = Standardized[CannedText]

\* C9: the append of a search to the store is issued at most once, for a
\* search submitted by a signed-in user, and only when none of its three
\* promises is pending; a search submitted without a user issues none.
C9_AppendAfterJoin ==
  \A s \in DOMAIN searches :
    /\ searches[s].appends <= 1
    /\ searches[s].appends > 0 <=>
         searches[s].join \in {"writing", "stored", "failed"}
    /\ searches[s].appends > 0 =>
         /\ \A p \in Providers : searches[s].result[p] # Pending
         /\ searches[s].uid # NoUser
    /\ searches[s].uid = NoUser => searches[s].join = "none"

\* the append of one search is in flight while another search of the same
\* user still waits for its promises
C9_Witness ==
  \E s, t \in DOMAIN searches :
    /\ searches[s].join = "writing" /\ searches[s].appends = 1
    /\ searches[t].join = "waiting"
    /\ \E p \in Providers : searches[t].result[p] # Pending

\* C10: when the append of a search fails, the history, the error shown
\* and the store are after the step what they were before it, and the
\* search ends as failed: nothing is thrown to the caller.
C10_FailedWriteIsSilent ==
  [][\A s \in DOMAIN searches :
       searches[s].join = "writing" /\ searches'[s].join # "writing"
         /\ store' = store =>
           /\ searches'[s].join = "failed"
           /\ queryHistory' = queryHistory
           /\ error' = error
           /\ user' = user
    ]_vars

\* the append of a search failed and its record is in the history with the
\* slots the completions wrote
C10_Witness ==
  \E s \in DOMAIN searches :
    /\ searches[s].join = "failed"
    /\ \E i \in DOMAIN queryHistory :
         /\ queryHistory[i].timestamp = searches[s].timestamp
         /\ queryHistory[i].responses["gemini"] = Standardized[CannedText]
    /\ store = <<>>
    /\ error = NoError

\* C11: a search submitted while user is null never issues an append,
\* whoever signs in afterwards: every step that changes the store adds one
\* document, of a search that was submitted with a user, and no document
\* of the store is without a user; a read of the store is started only by
\* a step that ends with a user.
C11_NoUserNoStore ==
  [][/\ \A s \in DOMAIN searches' :
          searches'[s].uid = NoUser =>
            searches'[s].appends = 0 /\ searches'[s].doc = <<>>
     /\ store' # store =>
          /\ Len(store') = Len(store) + 1
          /\ SubSeq(store', 1, Len(store)) = store
          /\ store'[Len(store')].userId # NoUser
          /\ \E s \in DOMAIN searches :
               /\ searches[s].uid = store'[Len(store')].userId
               /\ searches[s].join = "writing"
               /\ searches'[s].join = "stored"
     /\ reads' > reads => user' # NoUser
    ]_vars

\* the three calls of a search submitted without a user completed after
\* a user signed in, and nothing was handed to the store
C11_Witness ==
  /\ user # NoUser
  /\ store = <<>>
  /\ \E s \in DOMAIN searches :
       /\ searches[s].uid = NoUser
       /\ \A p \in Providers : searches[s].result[p] # Pending
       /\ searches[s].join = "none"
       /\ \E i \in DOMAIN queryHistory :
            queryHistory[i].timestamp = searches[s].timestamp

\* C12: a step of handleDeleteQuery(t), the one step besides a read of the
\* store that shortens the history, leaves exactly the records whose
\* timestamp is not t, as they were and in their order, and nothing else
\* changes: no read is started, no join and no document of a search and no
\* document of the store is touched.
C12_DeleteIsLocalFilter ==
  [][Len(queryHistory') < Len(queryHistory) /\ ~Loaded =>
       /\ \E t \in Timestamps(queryHistory) :
            /\ t \in deleted'
            /\ queryHistory' =
                 SelectSeq(queryHistory, LAMBDA item : item.timestamp # t)
       /\ UNCHANGED <<store, searches, reads, user, error, query,
                      selectedQuery>>
    ]_vars

\* a record was deleted while its search still waits for its calls with a
\* join set up, another record is left, and the store got nothing
C12_Witness ==
  /\ deleted # {}
  /\ deleted \cap Timestamps(queryHistory) = {}
  /\ Len(queryHistory) >= 1
  /\ store = <<>>
  /\ \E s \in DOMAIN searches :
       searches[s].timestamp \in deleted /\ searches[s].join = "waiting"

\* the position after the first occurrence of p in s at or after i, or 0
\* if there is none (or i is 0)
C13_After(s, p, i) ==
  IF i = 0 THEN 0
  ELSE IF p = <<>> THEN i
  ELSE LET k == IndexOfSeq(s, p, i)
       IN  IF k = 0 THEN 0 ELSE k + Len(p)

\* C13: when a query is submitted with a selection whose record is in the
\* history, the prompt of the search has the query of that record, then
\* its ChatGPT, Gemini and Perplexity slots, in this order and each after
\* the one before, and ends with the text of the query field behind them;
\* and the new record has the timestamp of that record as parentId.
C13_FollowUpCarriesParent ==
  [][Submitted /\ parentQuery # 0 =>
       LET parent == queryHistory[parentQuery]
           prompt == searches'[Len(searches')].prompt
           a == C13_After(prompt, parent.query, 1)
           b == C13_After(prompt, parent.responses["chatgpt"], a)
           c == C13_After(prompt, parent.responses["gemini"], b)
           d == C13_After(prompt, parent.responses["perplexity"], c)
       IN  /\ d # 0
           /\ d + Len(query) <= Len(prompt) + 1
           /\ HasAt(prompt, Len(prompt) - Len(query) + 1, query)
           /\ queryHistory'[1].parentId = parent.timestamp
           /\ parent.timestamp = selectedQuery
    ]_vars

\* a follow-up was submitted on the listed record, whose three slots had
\* answers, and its record is at the head
C13_Witness ==
  /\ Len(searches) = 2
  /\ Len(queryHistory) = 3
  /\ queryHistory[1].parentId = EarlierListed
  /\ queryHistory[3].timestamp = EarlierListed
  /\ Len(searches[2].prompt) > Len(UserContext) + Len(searches[2].text)
  /\ IndexOfSeq(searches[2].prompt, Standardized[CannedText], 1) # 0

\* C18 (as claimed): when a query is submitted with a selection whose
\* record is in the history, none of the three slots of that record, which
\* go into the prompt, holds the loading sentinel.
C18_ParentIsResolved ==
  [][Submitted /\ parentQuery # 0 =>
       \A p \in Providers :
         queryHistory[parentQuery].responses[p] # LOADING
    ]_vars

\* C14 (as claimed): the normalizer applied to a normalized text gives
\* that text again.
C14_NormalizeTwice == call.phase = "again" => call.again = call.slot

\* the lines of the text a call resolved with, and of the slot written
C15_InputLines == SplitLines(call.result.text)
C15_OutputLines == SplitLines(call.slot)
\* as many lines of the slot are the glyph, a space and the heading text
\* as lines of the text start with the prefix
C15_Emitted(prefix, glyph) ==
  Cardinality({i \in DOMAIN C15_InputLines :
                 HasAt(C15_InputLines[i], 1, prefix)})
    = Cardinality({i \in DOMAIN C15_OutputLines :
                     C15_OutputLines[i] = <<glyph, " ", "h">>})
C15_HeadingsMapped ==
  /\ C15_Emitted(<<"#", "#", "#", " ">>, GlyphSmall)
  /\ C15_Emitted(<<"#", "#", " ">>, GlyphMedium)
  /\ C15_Emitted(<<"#", " ">>, GlyphLarge)
  /\ \A i \in DOMAIN C15_OutputLines :
       IndexIn(C15_OutputLines[i], {"h"}, 1) # 0 =>
         \E glyph \in {GlyphSmall, GlyphMedium, GlyphLarge} :
           C15_OutputLines[i] = <<glyph, " ", "h">>

C16_Settled(i) == i \in DOMAIN uploads /\ uploads' = Remove(uploads, i)

C16_TooLargeIsRejected ==
  [][\A i \in DOMAIN uploads :
       /\ C16_Settled(i)
       /\ ~readFileContent(uploads[i]).threw
       /\ Len(readFileContent(uploads[i]).content) > MaxFileLength
       => /\ error' = FileTooLarge
          /\ query' = query
          /\ fileName' = ""
          /\ fileContent' = <<>>]_vars

\* a file over the limit was rejected while the query field held a text
C16_Witness ==
  /\ error = FileTooLarge
  /\ query = Hello
  /\ fileName = ""
  /\ fileContent = <<>>
  /\ uploads = <<>>

(***************************************************************************)
(* C17: record identity is unique: in every reachable state any two        *)
(* records of the in-memory history have different timestamps.             *)
(***************************************************************************)
C17_UniqueTimestamps ==
  \A i, j \in DOMAIN queryHistory :
    i # j => queryHistory[i].timestamp # queryHistory[j].timestamp

(***************************************************************************)
(* C19: each adapter invocation issues exactly one HTTP POST to its        *)
(* provider, never zero and never a second one, whether the call succeeds  *)
(* or fails.                                                               *)
(***************************************************************************)
\* as claimed: a call that has been made has issued one POST
C19_ExactlyOnePost == call.phase # "idle" => call.posts = 1

\* as the code has it: one POST, none when the key check of the adapter
\* fails
C19_OnePostUnlessNoKey ==
  call.phase # "idle" =>
    call.posts = IF ChecksKey(call.provider) /\ ~apiKey[call.provider]
                 THEN 0 ELSE 1

\* a call that failed after its one POST has got as far as the slot
C19_Witness ==
  /\ call.phase = "written"
  /\ call.failed
  /\ call.net = "settled"
  /\ call.posts = 1

(***************************************************************************)
(* C20: the timeout of the OpenAI adapter is a race decided by the first   *)
(* event.  When the timer fires before the fetch settles the adapter       *)
(* resolves with "Error (OpenAI): Request timed out", and the response     *)
(* that arrives later changes neither the result nor the chatgpt slot;     *)
(* when the fetch settles first, the timer firing later changes nothing.   *)
(***************************************************************************)
C20_FirstEventDecides ==
  [][call.provider = "chatgpt" =>
       /\ call.race = "open" /\ call.timer = "armed"
            /\ call'.timer = "fired" =>
            /\ call'.phase = "resolved"
            /\ call'.result = TimeoutError("chatgpt")
       /\ call.race = "timer" =>
            /\ call'.result = TimeoutError("chatgpt")
            /\ call'.phase = "written" =>
                 call'.slot = Standardized[TimeoutError("chatgpt").text]
            /\ call.phase = "written" => call'.slot = call.slot
       /\ call.race = "fetch" /\ call.timer = "armed"
            /\ call'.timer = "fired" =>
            call' = [call EXCEPT !.timer = "fired"]]_vars

\* the timer won, the slot was written, and the response arrived after it
C20_Witness ==
  /\ call.provider = "chatgpt"
  /\ call.race = "timer"
  /\ call.phase = "written"
  /\ call.net = "settled"

(***************************************************************************)
(* C21: deleting a record does not cancel its work in flight.  A deletion  *)
(* leaves the promises and the join of every search as they are; when a    *)
(* promise of a search of a signed-in user resolves while the history has  *)
(* no record of the search, the history stays as it is, and with the last  *)
(* of the three the append of the bundle is issued; the append that        *)
(* succeeds puts the bundle at the end of the store and leaves the         *)
(* history without the record.                                             *)
(***************************************************************************)
C21_DeleteDoesNotCancel ==
  [][/\ Len(queryHistory') < Len(queryHistory) /\ ~Loaded =>
          searches' = searches
     /\ \A s \in DOMAIN searches : \A p \in Providers :
          /\ Resolved(s, p)
          /\ searches[s].join = "waiting"
          /\ searches[s].timestamp \notin Timestamps(queryHistory)
          => /\ queryHistory' = queryHistory
             /\ (\A x \in Providers : searches'[s].result[x] # Pending) =>
                  /\ searches'[s].join = "writing"
                  /\ searches'[s].doc =
                       <<StoreDoc(searches[s].uid, searches[s].text,
                                  searches'[s].result, now)>>
     /\ \A s \in DOMAIN searches :
          /\ searches[s].orphan
          /\ searches[s].join = "writing"
          /\ searches'[s].join = "stored"
          => /\ store' = Append(store, searches[s].doc[1])
             /\ queryHistory' = queryHistory
    ]_vars

\* the record of a search was deleted before its last call completed, and
\* its bundle is in the store while the history is without the record
C21_Witness ==
  \E s \in DOMAIN searches :
    /\ searches[s].orphan
    /\ searches[s].join = "stored"
    /\ searches[s].timestamp \notin Timestamps(queryHistory)
    /\ \E d \in DOMAIN store :
         /\ store[d].query = searches[s].text
         /\ store[d].userId = searches[s].uid
    /\ Len(queryHistory) >= 1

(***************************************************************************)
(* C22 (as claimed): when the read of the store started by a sign-in       *)
(* returns, the history becomes what the read gives: at most               *)
(* ITEMS_PER_PAGE * 2 records of documents of the user with the timestamps *)
(* descending, or the empty list.  The record of a search submitted        *)
(* without a user is then no longer in the history, and a completion of    *)
(* such a search after the read changes nothing in the history.            *)
(***************************************************************************)
C22_LoadReplacesHistory ==
  [][/\ Loaded =>
          /\ Len(queryHistory') <= ITEMS_PER_PAGE * 2
          /\ \A i, j \in DOMAIN queryHistory' :
               i < j =>
                 queryHistory'[i].timestamp >= queryHistory'[j].timestamp
          /\ \A i \in DOMAIN queryHistory' :
               \E d \in DOMAIN store :
                 /\ store[d].userId = Uid
                 /\ store[d].timestamp = queryHistory'[i].timestamp
                 /\ store[d].query = queryHistory'[i].query
                 /\ store[d].responses = queryHistory'[i].responses
     /\ \A s \in DOMAIN searches : \A p \in Providers :
          /\ Resolved(s, p)
          /\ searches[s].uid = NoUser
          /\ user # NoUser
          /\ reads = 0
          => queryHistory' = queryHistory
    ]_vars

(***************************************************************************)
(* C23 (as claimed): the timestamp of the document of a search is the      *)
(* clock value at which the append is issued, never earlier than the       *)
(* timestamp of the record; and when the join of a search A fires while    *)
(* the append of a search B submitted after A is already under way, every  *)
(* listing of the two documents by descending timestamp has A's first,     *)
(* while the history has B's record before A's.                            *)
(***************************************************************************)
C23_StoreOrderReversed ==
  [][\A s \in DOMAIN searches :
       searches[s].join = "waiting" /\ searches'[s].join = "writing" =>
         /\ searches'[s].doc[1].timestamp = now
         /\ searches'[s].doc[1].timestamp >= searches[s].timestamp
         /\ \A t \in DOMAIN searches :
              s < t /\ searches[t].join = "writing" =>
                /\ \A l \in Listings(<<searches[t].doc[1],
                                         searches'[s].doc[1]>>) :
                     l = <<2, 1>>
                /\ \A i, j \in DOMAIN queryHistory :
                     /\ queryHistory[i].timestamp = searches[t].timestamp
                     /\ queryHistory[j].timestamp = searches[s].timestamp
                     /\ searches[s].timestamp # searches[t].timestamp
                     => i < j
    ]_vars

(***************************************************************************)
(* C24: the follow-up selection is sticky.  Only a click on a follow-up    *)
(* button changes selectedQuery, a submission never does.  Every           *)
(* submission made while the selection is the timestamp of a record of     *)
(* the history has that timestamp as parentId and the query of that        *)
(* record behind "Previous question: " in its prompt; a submission made    *)
(* while the selection is the timestamp of no record has no parentId and   *)
(* the query field alone behind the user context.                          *)
(***************************************************************************)
C24_SelectionIsSticky ==
  [][/\ selectedQuery' # selectedQuery =>
          /\ selectedQuery' \in Timestamps(queryHistory)
          /\ ~Submitted
     /\ Submitted =>
          LET record == queryHistory'[1]
              prompt == searches'[Len(searches')].prompt
              lead   == UserContext \o PreviousQuestion
          IN  /\ selectedQuery' = selectedQuery
              /\ IF /\ selectedQuery # NoSelection
                    /\ selectedQuery \in Timestamps(queryHistory)
                 THEN /\ record.parentId = selectedQuery
                      /\ \E i \in DOMAIN queryHistory :
                           /\ queryHistory[i].timestamp = selectedQuery
                           /\ Take(prompt, Len(lead)
                                            + Len(queryHistory[i].query))
                                = lead \o queryHistory[i].query
                      /\ Len(prompt) > Len(UserContext) + Len(query)
                 ELSE /\ record.parentId = 0
                      /\ prompt = UserContext \o query
    ]_vars

\* after one click on the follow-up button two queries were submitted, both
\* as follow-ups of the record chosen, which is still in the history
C24_Witness ==
  /\ Len(searches) = 2
  /\ selectedQuery = EarlierListed
  /\ Len(queryHistory) = 4
  /\ queryHistory[1].parentId = EarlierListed
  /\ queryHistory[2].parentId = EarlierListed
  /\ queryHistory[4].timestamp = EarlierListed

=============================================================================
